---------------------------- MODULE Spec2Model ----------------------------
(***************************************************************************)
(* The generation relay of semeroli-ui/text-to-image: one prompt in, one   *)
(* remote asynchronous job driven to completion or timeout, progress sent  *)
(* back as a stream of events.  Two adapters carry the same routine:       *)
(*   "native"   functions/api/generate.js   (onRequestPost)                *)
(*   "express"  functions/_middleware.js    (module.exports, the route of  *)
(*              getRouteHandler and the fakeRes response shim)             *)
(* Every request is a record req[r]; process.env is the one piece of state *)
(* the requests share.  An action is one stretch of a handler: up to its   *)
(* first write, one remote call with everything done on its response, or   *)
(* one inter-poll delay.  The response a call receives is drawn from a     *)
(* finite set of response shapes.                                          *)
(***************************************************************************)
EXTENDS Integers, Sequences, FiniteSets, TLC

VARIABLES req, processEnv, past

vars == <<req, processEnv, past>>

(***************************************************************************)
(* Bounds of the model.                                                    *)
(***************************************************************************)
\* prompts are the strings over Chars of at most this length, or no prompt
MaxPromptLen == 2
\* request slots
NumReqs == 2
\* under SpecConcurrent a job answers "still pending" at most this often
MaxPending == 1

Reqs == 1..NumReqs
\* the requests in flight under Spec: one at a time
Solo == {1}

Chars == {" ", "a"}
Keys == {"k1", "k2"}
Adapters == {"native", "express"}

RECURSIVE Strings(_)
Strings(n) ==
  IF n = 0 THEN {<<>>}
  ELSE LET S == Strings(n - 1)
       IN  S \cup {Append(t, c) : t \in {u \in S : Len(u) = n - 1}, c \in Chars}

NoPrompt == [present |-> FALSE, text |-> <<>>]
Prompts == {NoPrompt} \cup {[present |-> TRUE, text |-> t] : t \in Strings(MaxPromptLen)}

(***************************************************************************)
(* String.prototype.trim and the validation test of both adapters.         *)
(***************************************************************************)
RECURSIVE TrimStart(_)
TrimStart(t) ==
  IF t # <<>> /\ Head(t) = " " THEN TrimStart(Tail(t)) ELSE t

RECURSIVE TrimEnd(_)
TrimEnd(t) ==
  IF t # <<>> /\ t[Len(t)] = " " THEN TrimEnd(SubSeq(t, 1, Len(t) - 1)) ELSE t

Trim(t) == TrimEnd(TrimStart(t))

\* !prompt: undefined and "" are falsy
Falsy(p) == ~p.present \/ p.text = <<>>

\* !prompt || !prompt.trim()
Invalid(p) == Falsy(p) \/ Trim(p.text) = <<>>

(***************************************************************************)
(* Remote responses.  A response is what fetch() yields and what the       *)
(* handler then reads of it:                                               *)
(*   thrown         fetch rejects (network fault)                          *)
(*   ok, status     Response.ok, Response.status                           *)
(*   text           the raw body, as Response.text() returns it            *)
(*   body           what Response.json() yields: "unparsable" (it rejects),*)
(*                  "null" (JSON null) or "object"                         *)
(*   task_id, task_status, error_message   fields of the object, "none"    *)
(*                  when the object lacks the field                        *)
(*   output_images  "list" ([{url}]), "object" ({url}) or "none"           *)
(*   url            the image URL the result holds                         *)
(***************************************************************************)
Resp0 ==
  [thrown |-> FALSE, ok |-> TRUE, status |-> 200, text |-> "body",
   body |-> "object", task_id |-> "none", task_status |-> "none",
   output_images |-> "none", url |-> "none", error_message |-> "none"]

NoResp == [Resp0 EXCEPT !.body = "unread", !.text = ""]

NetFault == [Resp0 EXCEPT !.thrown = TRUE]

SubmitResponses ==
  { NetFault,
    [Resp0 EXCEPT !.ok = FALSE, !.status = 500, !.text = "quota", !.body = "unparsable"],
    [Resp0 EXCEPT !.body = "unparsable"],
    [Resp0 EXCEPT !.body = "null"],
    Resp0,
    [Resp0 EXCEPT !.task_id = "t1"],
    [Resp0 EXCEPT !.task_id = "t2"] }

Succeed(shape) ==
  [Resp0 EXCEPT !.task_status = "SUCCEED", !.output_images = shape,
                !.url = IF shape = "none" THEN "none" ELSE "img"]

PollResponses ==
  { NetFault,
    [Resp0 EXCEPT !.ok = FALSE, !.status = 500, !.body = "unparsable"],
    [Resp0 EXCEPT !.ok = FALSE, !.status = 500],
    [Resp0 EXCEPT !.body = "unparsable"],
    [Resp0 EXCEPT !.body = "null"],
    Resp0,
    [Resp0 EXCEPT !.task_status = "PENDING"],
    Succeed("list"), Succeed("object"), Succeed("none"),
    [Resp0 EXCEPT !.task_status = "FAILED", !.error_message = "nsfw"],
    [Resp0 EXCEPT !.task_status = "FAILED"] }


(***************************************************************************)
(* Events.  sendEvent writes `data: ${JSON.stringify({ type, ...data })}`; *)
(* a chunk of the stream is modelled by the object that was serialised:    *)
(*   type      "status" | "complete" | "error" ("raw" for a chunk that is  *)
(*             no event: a body handed to res.end)                         *)
(*   text      which message it is                                         *)
(*   n         the iteration number a progress message carries (else 0)    *)
(*   code      the HTTP status a message carries (else 0)                  *)
(*   detail    the text spliced into the message (else "")                 *)
(*   imageUrl  the imageUrl key; "absent" when the key is not in the JSON  *)
(*             (JSON.stringify drops a key whose value is undefined)       *)
(***************************************************************************)
Data0 == [text |-> "", n |-> 0, code |-> 0, detail |-> "", imageUrl |-> "absent"]

Payload(type, data) ==
  [type |-> type, text |-> data.text, n |-> data.n, code |-> data.code,
   detail |-> data.detail, imageUrl |-> data.imageUrl]

Raw(text) == Payload("raw", [Data0 EXCEPT !.text = text])

Terminal(e) == e.type \in {"complete", "error"}
IsEvent(e) == e.type \in {"status", "complete", "error"}

\* the message of the event for a fault caught by the handler (err.message)
FaultOf(resp) ==
  IF resp.thrown THEN "NetworkError"
  ELSE IF resp.body = "unparsable" THEN "SyntaxError"
  ELSE "TypeError"

(***************************************************************************)
(* A request.                                                              *)
(*   adapter, prompt, envKey  the inputs: which entry point received it,   *)
(*            the prompt of its body, the secret of its environment        *)
(*   pc       where its handler stands                                     *)
(*   apiKey, taskId, i        the handler's locals API_KEY, taskId, i      *)
(*   calls    the remote calls issued so far, in order                     *)
(*   delays   the number of inter-poll delays taken                        *)
(*   chunks   what the stream has accepted, in order                       *)
(*   stream   the TransformStream: "none" (not created), "open", "closed", *)
(*            "errored" (the caller went away and the readable side was    *)
(*            cancelled)                                                   *)
(*   response the Response handed to the platform: kind "none" | "plain" | *)
(*            "stream"                                                     *)
(*   statusCode  fakeRes.statusCode of the express shim                    *)
(*   resolves the number of calls of resolve() made by the express shim    *)
(*   refused  the stream has refused a write or a close of the handler     *)
(*   submitRes, pollRes  the response of the submit call and of the latest *)
(*            poll call                                                    *)
(*   prior    what the poll responses before the latest one were (history, *)
(*            read by no action): "pending" (each HTTP success with        *)
(*            task_status PENDING), "nonterminal" (each HTTP success with  *)
(*            a status other than SUCCEED and FAILED) or "other"           *)
(***************************************************************************)
NoResponse == [kind |-> "none", status |-> 0, ctype |-> "none", body |-> "none"]

Idle ==
  [adapter |-> "none", prompt |-> NoPrompt, envKey |-> "none", pc |-> "idle",
   apiKey |-> "unset", taskId |-> "unset", i |-> 0, calls |-> <<>>, delays |-> 0,
   chunks |-> <<>>, stream |-> "none", response |-> NoResponse,
   statusCode |-> 200, resolves |-> 0, refused |-> FALSE,
   submitRes |-> NoResp, pollRes |-> NoResp, prior |-> "pending"]

Call(op, s) ==
  [op |-> op, key |-> s.apiKey,
   task |-> IF op = "poll" THEN s.taskId ELSE "none",
   prompt |-> IF op = "submit" THEN Trim(s.prompt.text) ELSE <<>>]

Polls(s) == SelectSeq(s.calls, LAMBDA c : c.op = "poll")

MAX_POLLS(adapter) == IF adapter = "native" THEN 40 ELSE 60

(***************************************************************************)
(* The messages.  The two adapters word them differently; `text` names the *)
(* message, and the fallback of a failure without a reason keeps the       *)
(* adapter's own wording.                                                  *)
(***************************************************************************)
Submitting == Payload("status", [Data0 EXCEPT !.text = "submitting"])
Submitted == Payload("status", [Data0 EXCEPT !.text = "submitted"])
Generating(n) == Payload("status", [Data0 EXCEPT !.text = "generating", !.n = n])
TimedOut == Payload("error", [Data0 EXCEPT !.text = "timeout"])
ServerError(msg) == Payload("error", [Data0 EXCEPT !.text = "serverError", !.detail = msg])
Complete(url) == Payload("complete", [Data0 EXCEPT !.text = "complete", !.imageUrl = url])

\* pollData.error?.message || '未知原因' (native), '未知错误' (express)
Fallback(adapter) == IF adapter = "native" THEN "unknown reason" ELSE "unknown error"

ReasonDropped(adapter, resp) == Fallback(adapter)

Reason(adapter, resp) ==
  IF resp.error_message = "none" THEN Fallback(adapter) ELSE resp.error_message

JobFailed(adapter, resp) ==
  Payload("error", [Data0 EXCEPT !.text = "failed", !.detail = Reason(adapter, resp)])

ApiFailedNoText(adapter, resp) ==
  Payload("error", [Data0 EXCEPT !.text = "apiFailed", !.code = resp.status])

\* `API 请求失败: ${errText}` (native), `... ${submitRes.status} ${errText}` (express)
ApiFailed(adapter, resp) ==
  Payload("error",
    [Data0 EXCEPT !.text = "apiFailed",
                  !.code = IF adapter = "express" THEN resp.status ELSE 0,
                  !.detail = resp.text])

\* `轮询失败: ${pollRes.status}`
PollFailed(resp) ==
  Payload("error", [Data0 EXCEPT !.text = "pollFailed", !.code = resp.status])

\* the for-condition i < MAX_POLLS
LoopContinuesOneMore(s) == s.i <= MAX_POLLS(s.adapter)

LoopContinues(s) == s.i < MAX_POLLS(s.adapter)

\* what a poll response is to the remote job
Class(resp) ==
  IF resp.thrown \/ ~resp.ok \/ resp.body # "object" THEN "other"
  ELSE IF resp.task_status = "PENDING" THEN "pending"
  ELSE IF resp.task_status \in {"SUCCEED", "FAILED"} THEN "other"
  ELSE "nonterminal"

Join(a, b) ==
  IF a = "other" \/ b = "other" THEN "other"
  ELSE IF a = "nonterminal" \/ b = "nonterminal" THEN "nonterminal"
  ELSE "pending"

\* the handler issues the call `op` and receives `resp`
Called(s, op, resp) ==
  IF op = "submit"
  THEN [s EXCEPT !.calls = Append(@, Call(op, s)), !.submitRes = resp]
  ELSE [s EXCEPT !.calls = Append(@, Call(op, s)), !.pollRes = resp,
                 !.prior = IF s.pollRes = NoResp THEN "pending"
                           ELSE Join(@, Class(s.pollRes))]

(***************************************************************************)
(* generate.js.  sendEvent awaits writer.write, so a write the stream      *)
(* refuses is a fault thrown inside the try block; the catch block calls   *)
(* sendEvent again, and a fault thrown there leaves the task's promise     *)
(* rejected with nobody to handle it (pc "rejected").                      *)
(***************************************************************************)
Writable(s) == s.stream = "open"

\* catch (err) { await sendEvent('error', ...); await writer.close(); }
NativeCatch(s, msg) ==
  IF Writable(s)
  THEN [s EXCEPT !.chunks = Append(@, ServerError(msg)), !.stream = "closed", !.pc = "done"]
  ELSE [s EXCEPT !.refused = TRUE, !.pc = "rejected"]

\* await sendEvent(...) inside the try block, the handler going on to `pc`
NativeSend(s, e, pc) ==
  IF Writable(s)
  THEN [s EXCEPT !.chunks = Append(@, e), !.pc = pc]
  ELSE NativeCatch(s, "TypeError")

\* await sendEvent(...); await writer.close(); return;
NativeSendClose(s, e) ==
  IF Writable(s)
  THEN [s EXCEPT !.chunks = Append(@, e), !.stream = "closed", !.pc = "done"]
  ELSE NativeCatch(s, "TypeError")

NativeEntered(s) ==
  IF Invalid(s.prompt)
  THEN [s EXCEPT !.response = [kind |-> "plain", status |-> 400,
                               ctype |-> "application/json", body |-> "error"],
                 !.pc = "done"]
  ELSE [s EXCEPT !.apiKey = s.envKey, !.stream = "open",
                 !.response = [kind |-> "stream", status |-> 200,
                               ctype |-> "text/event-stream", body |-> "stream"],
                 !.pc = "submitting"]

NativeSubmitted(s, resp) ==
  LET s1 == Called(s, "submit", resp)
  IN  IF resp.thrown THEN NativeCatch(s1, FaultOf(resp))
      ELSE IF ~resp.ok
        THEN NativeSendClose(s1, ApiFailed("native", resp))
      ELSE IF resp.body # "object" THEN NativeCatch(s1, FaultOf(resp))
      ELSE NativeSend(
             [s1 EXCEPT !.taskId = IF resp.task_id = "none" THEN "undefined"
                                   ELSE resp.task_id],
             Submitted, "loop")

NativePolled(s, resp) ==
  LET s1 == Called(s, "poll", resp)
  IN  IF resp.thrown \/ resp.body # "object" THEN NativeCatch(s1, FaultOf(resp))
      ELSE IF resp.task_status = "SUCCEED"
        THEN IF resp.output_images = "list"
             THEN NativeSendClose(s1, Complete(resp.url))
             ELSE NativeCatch(s1, "TypeError")
      ELSE IF resp.task_status = "FAILED"
        THEN NativeSendClose(s1, JobFailed("native", resp))
      ELSE NativeSend([s1 EXCEPT !.i = @ + 1], Generating(s.i + 1), "loop")

(***************************************************************************)
(* _middleware.js: the response shim fakeRes.  Its writes and its close    *)
(* are not awaited: on a stream that refuses them the promise rejects and  *)
(* nothing is thrown into the route.                                       *)
(***************************************************************************)
\* resolve(new Response(...)): a promise settles once
Resolve(s, kind, body) ==
  IF s.response.kind # "none" THEN [s EXCEPT !.resolves = @ + 1]
  ELSE [s EXCEPT !.resolves = @ + 1,
                 !.response = [kind |-> kind, status |-> s.statusCode,
                               ctype |-> "none", body |-> body]]

\* fakeRes.write(chunk)
ShimWrite(s, chunk) ==
  LET s1 == IF s.stream = "none"
            THEN [Resolve(s, "stream", "stream") EXCEPT !.stream = "open"]
            ELSE s
  IN  IF s1.stream = "open"
      THEN [s1 EXCEPT !.chunks = Append(@, chunk)]
      ELSE [s1 EXCEPT !.refused = TRUE]

\* fakeRes.end(chunk): chunk is <<>> for end() and <<c>> for end(c)
ShimEnd(s, chunk) ==
  LET s1 == IF chunk # <<>> THEN ShimWrite(s, chunk[1]) ELSE s
  IN  IF s1.stream # "none"
      THEN IF s1.stream = "open"
           THEN [s1 EXCEPT !.stream = "closed"]
           ELSE [s1 EXCEPT !.refused = TRUE]
      ELSE Resolve(s1, "plain", "")

\* sendEvent of the route: if (res.write) res.write(...)
ExpressSend(s, e) == ShimWrite(s, e)

\* sendEvent(...); res.end(); return;
ExpressSendEnd(s, e) == [ShimEnd(ExpressSend(s, e), <<>>) EXCEPT !.pc = "done"]

\* catch (err) { sendEvent('error', ...); res.end(); }
ExpressCatch(s, msg) == ExpressSendEnd(s, ServerError(msg))

(***************************************************************************)
(* The route of getRouteHandler.  The route calls res.status(400).json()   *)
(* and res.setHeader(); fakeRes defines write, end, set and status and     *)
(* nothing else.  express is a dependency: `decorated` says whether        *)
(* the response object the route is handed has express's response methods  *)
(* over the shim (json ends the response with the JSON body, setHeader     *)
(* does not reach fakeRes.headers) or is the bare shim, on which the call  *)
(* is a TypeError thrown outside the try block.  The async route's promise *)
(* is then rejected: express either leaves it at that (pc "rejected") or   *)
(* passes the fault to next (`forwards`, pc "next"), which here is the     *)
(* 404 callback.                                                           *)
(***************************************************************************)
ExpressThrew(s, forwards) ==
  [s EXCEPT !.pc = IF forwards THEN "next" ELSE "rejected"]

ExpressRouted(s, env, decorated, forwards) ==
  IF Invalid(s.prompt)
  THEN LET s1 == [s EXCEPT !.statusCode = 400]
       IN  IF decorated
           THEN [ShimEnd(s1, <<Raw("error")>>) EXCEPT !.pc = "done"]
           ELSE ExpressThrew(s1, forwards)
  ELSE IF ~decorated THEN ExpressThrew(s, forwards)
  ELSE [ExpressSend(s, Submitting) EXCEPT !.apiKey = env, !.pc = "submit"]

ExpressSubmitted(s, resp) ==
  LET s1 == Called(s, "submit", resp)
  IN  IF resp.thrown THEN ExpressCatch(s1, FaultOf(resp))
      ELSE IF ~resp.ok
        THEN ExpressSendEnd(s1, ApiFailed("express", resp))
      ELSE IF resp.body # "object" THEN ExpressCatch(s1, FaultOf(resp))
      ELSE [ExpressSend(
              [s1 EXCEPT !.taskId = IF resp.task_id = "none" THEN "undefined"
                                    ELSE resp.task_id],
              Submitted)
            EXCEPT !.pc = "loop"]

ExpressPolled(s, resp) ==
  LET s1 == Called(s, "poll", resp)
  IN  IF resp.thrown THEN ExpressCatch(s1, FaultOf(resp))
      ELSE IF ~resp.ok
        THEN ExpressSendEnd(s1, PollFailed(resp))
      ELSE IF resp.body # "object" THEN ExpressCatch(s1, FaultOf(resp))
      ELSE IF resp.task_status = "SUCCEED"
        THEN IF resp.output_images = "none"
             THEN ExpressCatch(s1, "TypeError")
             ELSE ExpressSendEnd(s1,
                    Complete(IF resp.output_images = "object" THEN resp.url
                             ELSE "absent"))
      ELSE IF resp.task_status = "FAILED"
        THEN ExpressSendEnd(s1, JobFailed("express", resp))
      ELSE [ExpressSend([s1 EXCEPT !.i = @ + 1], Generating(s.i + 1))
            EXCEPT !.pc = "loop"]

\* the callback handed to router(): fakeRes.status(404).end('Not Found')
NotFound(s) ==
  [ShimEnd([s EXCEPT !.statusCode = 404], <<Raw("Not Found")>>) EXCEPT !.pc = "done"]

(***************************************************************************)
(* Actions.                                                                *)
(***************************************************************************)
Init ==
  /\ req = [r \in Reqs |-> Idle]
  /\ processEnv = "unset"
  /\ past = Idle

\* request r moves on; the record of the run kept for comparison stays
Step(r, s) == req' = [req EXCEPT ![r] = s] /\ past' = past

At(r, adapter, pc) == req[r].adapter = adapter /\ req[r].pc = pc

\* a request reaches one of the two entry points
Arrive(r) ==
  /\ req[r].pc = "idle"
  /\ \E a \in Adapters, p \in Prompts, k \in Keys :
       Step(r, [Idle EXCEPT !.adapter = a, !.prompt = p, !.envKey = k, !.pc = "start"])
  /\ UNCHANGED processEnv

NativeEntry(r) ==
  /\ At(r, "native", "start")
  /\ Step(r, NativeEntered(req[r]))
  /\ UNCHANGED processEnv

NativeSubmitting(r) ==
  /\ At(r, "native", "submitting")
  /\ Step(r, NativeSend(req[r], Submitting, "submit"))
  /\ UNCHANGED processEnv

NativeSubmit(r) ==
  /\ At(r, "native", "submit")
  /\ \E resp \in SubmitResponses : Step(r, NativeSubmitted(req[r], resp))
  /\ UNCHANGED processEnv

NativeDelaySkipped(r) ==
  /\ At(r, "native", "loop")
  /\ LoopContinues(req[r])
  /\ Step(r, [req[r] EXCEPT !.pc = "poll"])
  /\ UNCHANGED processEnv

NativeDelay(r) ==
  /\ At(r, "native", "loop")
  /\ LoopContinues(req[r])
  /\ Step(r, [req[r] EXCEPT !.delays = @ + 1, !.pc = "poll"])
  /\ UNCHANGED processEnv

NativePoll(r) ==
  /\ At(r, "native", "poll")
  /\ \E resp \in PollResponses : Step(r, NativePolled(req[r], resp))
  /\ UNCHANGED processEnv

NativeTimeout(r) ==
  /\ At(r, "native", "loop")
  /\ ~LoopContinues(req[r])
  /\ Step(r, NativeSendClose(req[r], TimedOut))
  /\ UNCHANGED processEnv

\* module.exports: process.env.MODELSCOPE_API_KEY = env.MODELSCOPE_API_KEY
ExpressEntry(r) ==
  /\ At(r, "express", "start")
  /\ processEnv' = req[r].envKey
  /\ Step(r, [req[r] EXCEPT !.pc = "route"])

ExpressRoute(r) ==
  /\ At(r, "express", "route")
  /\ \E decorated \in BOOLEAN, forwards \in BOOLEAN :
       Step(r, ExpressRouted(req[r], processEnv, decorated, forwards))
  /\ UNCHANGED processEnv

ExpressSubmit(r) ==
  /\ At(r, "express", "submit")
  /\ \E resp \in SubmitResponses : Step(r, ExpressSubmitted(req[r], resp))
  /\ UNCHANGED processEnv

ExpressDelay(r) ==
  /\ At(r, "express", "loop")
  /\ LoopContinues(req[r])
  /\ Step(r, [req[r] EXCEPT !.delays = @ + 1, !.pc = "poll"])
  /\ UNCHANGED processEnv

ExpressPoll(r) ==
  /\ At(r, "express", "poll")
  /\ \E resp \in PollResponses : Step(r, ExpressPolled(req[r], resp))
  /\ UNCHANGED processEnv

ExpressTimeout(r) ==
  /\ At(r, "express", "loop")
  /\ ~LoopContinues(req[r])
  /\ Step(r, ExpressSendEnd(req[r], TimedOut))
  /\ UNCHANGED processEnv

ExpressNotFound(r) ==
  /\ At(r, "express", "next")
  /\ Step(r, NotFound(req[r]))
  /\ UNCHANGED processEnv

\* the caller goes away while the stream is open: the readable side is
\* cancelled and the writable side refuses every later write and close
Disconnect(r) ==
  /\ req[r].stream = "open"
  /\ req[r].pc \notin {"done", "rejected"}
  /\ Step(r, [req[r] EXCEPT !.stream = "errored"])
  /\ UNCHANGED processEnv

Handler(r) ==
  \/ NativeEntry(r) \/ NativeSubmitting(r) \/ NativeSubmit(r)
  \/ NativeDelay(r) \/ NativePoll(r) \/ NativeTimeout(r)
  \/ ExpressEntry(r) \/ ExpressRoute(r) \/ ExpressSubmit(r)
  \/ ExpressDelay(r) \/ ExpressPoll(r) \/ ExpressTimeout(r)
  \/ ExpressNotFound(r)

\* one request, whose caller stays connected
Next == \E r \in Solo : Arrive(r) \/ Handler(r)

Spec == Init /\ [][Next]_vars

\* one request, whose caller may go away at any moment
NextCancel == \E r \in Solo : Arrive(r) \/ Handler(r) \/ Disconnect(r)

SpecCancel == Init /\ [][NextCancel]_vars

(***************************************************************************)
(* Requests in flight together.  The platform runs every invocation in the *)
(* same isolate: the handlers interleave at their awaits, and process.env  *)
(* outlives each of them.  The remote service is the well-behaved one:     *)
(* the submit call is refused or creates job "t1", and the job is pending  *)
(* for at most MaxPending polls before it succeeds (in either result       *)
(* shape) or fails with a reason.  The first slot may run a second time    *)
(* once its first run is over; `past` keeps the record of the first run.   *)
(***************************************************************************)
Pair == {1, 2}

ConcSubmitResponses ==
  { [Resp0 EXCEPT !.ok = FALSE, !.status = 500, !.text = "quota", !.body = "unparsable"],
    [Resp0 EXCEPT !.task_id = "t1"] }

ConcPollResponses ==
  { [Resp0 EXCEPT !.task_status = "PENDING"],
    Succeed("list"), Succeed("object"),
    [Resp0 EXCEPT !.task_status = "FAILED", !.error_message = "nsfw"] }

\* the prompts in flight together: one that passes validation, one blank
ConcPrompts ==
  { [present |-> TRUE, text |-> <<"a">>], [present |-> TRUE, text |-> <<" ">>] }

ConcArrive(r) ==
  /\ Arrive(r)
  /\ req'[r].prompt \in ConcPrompts

ConcSubmit(r) ==
  /\ NativeSubmit(r) \/ ExpressSubmit(r)
  /\ req'[r].submitRes \in ConcSubmitResponses

ConcPoll(r) ==
  /\ NativePoll(r) \/ ExpressPoll(r)
  /\ req'[r].pollRes \in ConcPollResponses
  /\ req'[r].pollRes.task_status = "PENDING" => Len(Polls(req[r])) < MaxPending

\* the first run of slot 1 is over and the same slot takes a new request
Repeat(r) ==
  /\ r = 1
  /\ past = Idle
  /\ req[r].pc \in {"done", "rejected"}
  /\ past' = req[r]
  /\ req' = [req EXCEPT ![r] = Idle]
  /\ UNCHANGED processEnv

NextConcurrent ==
  \E r \in Pair :
    \/ ConcArrive(r) \/ Repeat(r)
    \/ NativeEntry(r) \/ NativeSubmitting(r) \/ NativeDelay(r)
    \/ ExpressEntry(r) \/ ExpressRoute(r) \/ ExpressDelay(r) \/ ExpressNotFound(r)
    \/ ConcSubmit(r) \/ ConcPoll(r)

SpecConcurrent == Init /\ [][NextConcurrent]_vars

(***************************************************************************)
(* Vocabulary of the properties.                                           *)
(***************************************************************************)
Accepted(s) == s.pc # "idle" /\ ~Invalid(s.prompt)
Rejectable(s) == s.pc # "idle" /\ Invalid(s.prompt)
\* the handler has nothing left to run
Finished(s) == s.pc \in {"done", "rejected"}
Events(s) == SelectSeq(s.chunks, IsEvent)
Last(q) == q[Len(q)]
HasTerminal(s) == \E k \in 1..Len(s.chunks) : Terminal(s.chunks[k])
\* the submit call returned a job identifier
JobCreated(s) == s.submitRes # NoResp /\ s.submitRes.task_id # "none"
\* HTTP failure of a call that returned
HttpFailed(resp) == resp # NoResp /\ ~resp.thrown /\ ~resp.ok

(***************************************************************************)
(* C1.  For every request whose prompt passes validation, in both adapters *)
(* and for every sequence of remote responses: the emitted events contain  *)
(* exactly one terminal event (complete or error), it is the last event,   *)
(* nothing is written after it and the stream is closed.                   *)
(* Stated over every reachable state: a terminal event is the last chunk   *)
(* and the stream is closed from then on; a handler that has run to its    *)
(* end has emitted one.                                                    *)
(***************************************************************************)
C1_OneTerminalEventThenClosed ==
  \A r \in Reqs :
    LET s == req[r]
    IN  Accepted(s) =>
          /\ \A k \in 1..Len(s.chunks) :
               Terminal(s.chunks[k]) => k = Len(s.chunks) /\ s.stream = "closed"
          /\ Finished(s) => HasTerminal(s) /\ s.stream = "closed"

(***************************************************************************)
(* C2.  For every request whose prompt is missing, empty or whitespace-    *)
(* only, the relay returns a 400 rejection with a JSON error body, makes   *)
(* no remote call and opens no event stream / emits no event.              *)
(***************************************************************************)
JsonRejection(s) ==
  /\ s.response.status = 400
  /\ \/ s.response.kind = "plain" /\ s.response.body = "error"
     \/ s.response.kind = "stream" /\ s.chunks = <<Raw("error")>>

C2_BlankPromptRejected ==
  \A r \in Reqs :
    LET s == req[r]
    IN  Rejectable(s) =>
          /\ s.calls = <<>>
          /\ Events(s) = <<>>
          /\ s.response.ctype # "text/event-stream"
          /\ Finished(s) => JsonRejection(s)

(***************************************************************************)
(* C3.  When the submit call returns a non-success response, exactly one   *)
(* error event is produced, carrying the raw response text; the stream is  *)
(* then closed, the submit call is not retried and no poll call is made.   *)
(***************************************************************************)
C3_SubmitFailureIsFinal ==
  \A r \in Reqs :
    LET s == req[r]
    IN  HttpFailed(s.submitRes) =>
          /\ s.pc = "done"
          /\ Len(s.chunks) = 2
          /\ s.chunks[1] = Submitting
          /\ s.chunks[2].type = "error"
          /\ s.chunks[2].detail = s.submitRes.text
          /\ s.stream = "closed"
          /\ Len(s.calls) = 1
          /\ s.calls[1].op = "submit"

C3_Witness ==
  \E r \in Reqs :
    /\ req[r].adapter = "express"
    /\ HttpFailed(req[r].submitRes)
    /\ req[r].submitRes.text = "quota"
    /\ req[r].pc = "done"

(***************************************************************************)
(* C4.  If the poll responses are PENDING N times and then SUCCEEDED, the  *)
(* events are exactly: the "submission in progress" status, the "job       *)
(* submitted" status, N pending statuses, one complete event with the      *)
(* provided image URL; N+1 poll calls are made and the stream then closes. *)
(* A SUCCEEDED response provides its URL in a list of images or in one     *)
(* image object.                                                           *)
(***************************************************************************)
Succeeded(resp) ==
  /\ Class(resp) = "other" /\ ~resp.thrown /\ resp.ok /\ resp.body = "object"
  /\ resp.task_status = "SUCCEED"
  /\ resp.url # "none"

ExpectedOnSuccess(n, url) ==
  <<Submitting, Submitted>> \o [k \in 1..n |-> Generating(k)] \o <<Complete(url)>>

C4_PendingThenSucceeded ==
  \A r \in Reqs :
    LET s == req[r]
        n == Len(Polls(s)) - 1
    IN  JobCreated(s) /\ s.prior = "pending" /\ Succeeded(s.pollRes) =>
          /\ s.chunks = ExpectedOnSuccess(n, s.pollRes.url)
          /\ Len(s.calls) = n + 2
          /\ s.stream = "closed"
          /\ s.pc = "done"

(***************************************************************************)
(* C5.  If every poll response within the budget is non-terminal, the      *)
(* final event is the timeout error and the number of poll calls equals    *)
(* the budget exactly; in every reachable state the number of poll calls   *)
(* issued is at most the budget.                                           *)
(***************************************************************************)
NeverTerminal(s) ==
  /\ s.pollRes # NoResp
  /\ Join(s.prior, Class(s.pollRes)) \in {"pending", "nonterminal"}

C5_TimeoutAfterExactlyTheBudget ==
  \A r \in Reqs :
    LET s == req[r]
    IN  s.pc # "idle" =>
          /\ Len(Polls(s)) <= MAX_POLLS(s.adapter)
          /\ Finished(s) /\ NeverTerminal(s) =>
               /\ Len(Polls(s)) = MAX_POLLS(s.adapter)
               /\ Last(s.chunks) = TimedOut
               /\ s.stream = "closed"

C5_Witness ==
  \E r \in Reqs :
    /\ req[r].adapter = "express"
    /\ Finished(req[r])
    /\ NeverTerminal(req[r])
    /\ Len(Polls(req[r])) = 60

(***************************************************************************)
(* C6.  When a poll response reports FAILED, the relay emits a terminal    *)
(* error event whose message holds the remote-supplied failure reason when *)
(* there is one and a generic fallback text when there is none, closes the *)
(* stream and issues no further poll call.                                 *)
(***************************************************************************)
Failed(resp) ==
  ~resp.thrown /\ resp.ok /\ resp.body = "object" /\ resp.task_status = "FAILED"

C6_FailedReportsTheReason ==
  \A r \in Reqs :
    LET s == req[r]
        e == Last(s.chunks)
    IN  Failed(s.pollRes) =>
          /\ s.pc = "done"
          /\ s.stream = "closed"
          /\ e.type = "error"
          /\ e.text = "failed"
          /\ s.pollRes.error_message # "none" => e.detail = s.pollRes.error_message
          /\ s.pollRes.error_message = "none" =>
               e.detail \in {"unknown reason", "unknown error"}
          /\ \A k \in 1..(Len(s.chunks) - 1) : ~Terminal(s.chunks[k])

C6_Witness ==
  \E r \in Reqs :
    /\ req[r].adapter = "native"
    /\ Failed(req[r].pollRes)
    /\ req[r].pollRes.error_message = "nsfw"
    /\ Len(Polls(req[r])) > 1
    /\ req[r].pc = "done"

(***************************************************************************)
(* C7.  For every accepted request and every way a remote call or a stream *)
(* write can return or fail, the output stream ends up closed and no fault *)
(* leaves the handler's asynchronous task unhandled without a terminal     *)
(* event having been emitted first.  Stated for a request whose output     *)
(* stream has been opened, over the states its handler can end in: the     *)
(* stream is not left open, and a task that ended with a fault nobody      *)
(* handled has emitted a terminal event.                                   *)
(***************************************************************************)
C7_NoFaultEscapesUnreported ==
  \A r \in Reqs :
    LET s == req[r]
    IN  Accepted(s) /\ s.stream # "none" /\ Finished(s) =>
          /\ s.stream # "open"
          /\ s.pc = "rejected" => HasTerminal(s)

(***************************************************************************)
(* C8.  If the submit call or a poll call throws, or its response body     *)
(* cannot be parsed or lacks the expected fields, the fault is caught: the *)
(* next and last event is an error event describing the fault, no further  *)
(* remote call is issued and the stream is closed.                         *)
(***************************************************************************)
\* the call threw, or the body the handler reads is not JSON or is null
Broken(resp) ==
  resp # NoResp /\ (resp.thrown \/ (resp.ok /\ resp.body \in {"unparsable", "null"}))

\* a parsed body without the field the handler reads of it
LacksFields(resp, op) ==
  /\ resp # NoResp /\ ~resp.thrown /\ resp.ok /\ resp.body = "object"
  /\ IF op = "submit" THEN resp.task_id = "none"
     ELSE \/ resp.task_status = "none"
          \/ resp.task_status = "SUCCEED" /\ resp.output_images = "none"

FaultReported(s) ==
  /\ s.pc = "done"
  /\ s.chunks # <<>>
  /\ Last(s.chunks).type = "error"
  /\ Last(s.chunks).text = "serverError"
  /\ s.stream = "closed"

C8_FaultsAreCaughtAndReported ==
  \A r \in Reqs :
    LET s == req[r]
    IN  \/ Broken(s.submitRes) \/ LacksFields(s.submitRes, "submit")
        \/ Broken(s.pollRes) \/ LacksFields(s.pollRes, "poll")
        => FaultReported(s)

(***************************************************************************)
(* C9.  When a poll call fails (a non-success HTTP response) or returns    *)
(* data without a recognisable status, the relay surfaces it as a terminal *)
(* error event and stops polling; it does not take it for "still pending"  *)
(* and go on to the next iteration.                                        *)
(***************************************************************************)
PollTrouble(resp) ==
  /\ resp # NoResp /\ ~resp.thrown
  /\ \/ ~resp.ok
     \/ resp.body = "object" /\ resp.task_status \notin {"PENDING", "SUCCEED", "FAILED"}

C9_PollTroubleIsTerminal ==
  \A r \in Reqs :
    LET s == req[r]
    IN  JobCreated(s) /\ PollTrouble(s.pollRes) =>
          /\ s.pc = "done"
          /\ Last(s.chunks).type = "error"
          /\ s.stream = "closed"

(***************************************************************************)
(* C10.  If the caller disconnects mid-stream at any point of the poll     *)
(* loop, the relay stops issuing poll calls (none is issued after the      *)
(* iteration in which the disconnect became observable) and releases the   *)
(* output stream.  The caller left during the poll loop when the "job     *)
(* submitted" event still went out; the disconnect is observable to the    *)
(* relay when the stream refuses a write.  From then on no remote call is  *)
(* issued, and the handler does not end with the stream open.              *)
(***************************************************************************)
InPollLoop(s) == Len(s.chunks) >= 2 /\ s.chunks[2] = Submitted

C10_NoPollAfterDisconnect ==
  [][\A r \in Reqs :
       /\ InPollLoop(req[r]) /\ req[r].refused => req'[r].calls = req[r].calls
       /\ Finished(req'[r]) => req'[r].stream # "open"]_vars

(***************************************************************************)
(* C11.  Every emitted event payload carries a type field in {status,      *)
(* complete, error} and a message field, and every complete event          *)
(* additionally carries an imageUrl field equal to the image URL contained *)
(* in the remote SUCCEEDED response, whichever of the remote result shapes *)
(* (list of images or single image object) is returned.  The events are    *)
(* the chunks written by sendEvent; the complete event is written on the   *)
(* response of the last poll call.                                         *)
(***************************************************************************)
WellFormed(e) == e.type \in {"status", "complete", "error"} /\ e.text # ""

C11_CompleteCarriesTheImageUrl ==
  \A r \in Reqs :
    LET s == req[r]
    IN  \A k \in 1..Len(Events(s)) :
          LET e == Events(s)[k]
          IN  /\ WellFormed(e)
              /\ e.type = "complete" =>
                   /\ Succeeded(s.pollRes)
                   /\ e.imageUrl # "absent"
                   /\ e.imageUrl = s.pollRes.url

(***************************************************************************)
(* C12.  Repeating a full request scenario with the same prompt and        *)
(* identical remote responses yields an identical event sequence and an    *)
(* identical sequence of remote calls, regardless of which requests ran    *)
(* before or run concurrently (no state of one request influences          *)
(* another).  Two completed runs are the same scenario when they entered   *)
(* the same adapter with the same prompt and the same environment secret   *)
(* and received the same responses; `past` is the first run of slot 1 and  *)
(* req[r] a later run, with whatever else was in flight around each.       *)
(***************************************************************************)
SameScenario(a, b) ==
  /\ Finished(a) /\ Finished(b)
  /\ a.calls # <<>> /\ b.calls # <<>>
  /\ a.adapter = b.adapter /\ a.prompt = b.prompt /\ a.envKey = b.envKey
  /\ a.submitRes = b.submitRes /\ a.pollRes = b.pollRes
  /\ Len(Polls(a)) = Len(Polls(b)) /\ a.prior = b.prior

C12_RepetitionIsIdentical ==
  \A r \in Reqs :
    SameScenario(past, req[r]) =>
      /\ req[r].chunks = past.chunks
      /\ req[r].calls = past.calls

(***************************************************************************)
(* C13.  Under any interleaving of concurrent requests arriving with       *)
(* different environment secrets, every submit and poll call of a request  *)
(* carries the bearer token supplied by that same request's environment;   *)
(* no request ever uses a token written by another request.                *)
(***************************************************************************)
C13_CallsCarryOwnToken ==
  \A r \in Reqs :
    \A k \in 1..Len(req[r].calls) : req[r].calls[k].key = req[r].envKey

(***************************************************************************)
(* C14.  Remote-call ordering: the first event ("submission in progress")  *)
(* is emitted before the submit call; no poll call is issued before the    *)
(* submit call has returned successfully; and every poll call is           *)
(* immediately preceded by one fixed delay within its own iteration (delay *)
(* first, then poll), so the number of delays taken always equals the      *)
(* number of poll calls issued or exceeds it by at most one while an       *)
(* iteration is in progress.                                               *)
(***************************************************************************)
ReturnedSuccessfully(resp) == resp # NoResp /\ ~resp.thrown /\ resp.ok

C14_CallOrdering ==
  \A r \in Reqs :
    LET s == req[r]
        polls == Len(Polls(s))
    IN  /\ s.calls # <<>> =>
             /\ s.calls[1].op = "submit"
             /\ \A k \in 2..Len(s.calls) : s.calls[k].op = "poll"
             /\ s.chunks # <<>> /\ s.chunks[1] = Submitting
        /\ s.pc = "submit" => s.chunks = <<Submitting>>
        /\ polls > 0 => ReturnedSuccessfully(s.submitRes)
        /\ s.pc \in {"loop", "poll"} => ReturnedSuccessfully(s.submitRes)
        /\ s.delays = IF s.pc = "poll" THEN polls + 1 ELSE polls

C14_Witness ==
  \E r \in Reqs :
    /\ req[r].pc = "poll"
    /\ Len(Polls(req[r])) = 2
    /\ req[r].delays = 3

(***************************************************************************)
(* C15.  Given the same prompt and the same sequence of remote responses,  *)
(* the native edge handler (generate.js) and the Express adapter           *)
(* (_middleware.js) issue the same sequence of remote calls and emit the   *)
(* same sequence of event kinds, including the same number of polls before *)
(* timeout and the same terminal event.  Two completed runs, one of each   *)
(* adapter, are compared: the same submit response, then the same number   *)
(* of "still pending" poll responses, then the same last poll response.    *)
(* A remote call is compared by its operation, its prompt and its job      *)
(* identifier.                                                             *)
(***************************************************************************)
Kinds(s) == [k \in 1..Len(s.chunks) |-> s.chunks[k].type]
Requests(s) ==
  [k \in 1..Len(s.calls) |->
     [op |-> s.calls[k].op, task |-> s.calls[k].task, prompt |-> s.calls[k].prompt]]

SameResponses(a, b) ==
  /\ Finished(a) /\ Finished(b)
  /\ a.calls # <<>> /\ b.calls # <<>>
  /\ a.prompt = b.prompt
  /\ a.submitRes = b.submitRes /\ a.pollRes = b.pollRes
  /\ Len(Polls(a)) = Len(Polls(b)) /\ a.prior = b.prior

C15_AdaptersAgree ==
  \A r \in Reqs :
    \A other \in {past} \cup {req[q] : q \in Reqs} :
      /\ req[r].adapter = "native" /\ other.adapter = "express"
      /\ SameResponses(req[r], other)
      => /\ Requests(req[r]) = Requests(other)
         /\ Kinds(req[r]) = Kinds(other)

(***************************************************************************)
(* C16.  Every poll call targets the job identifier returned by this       *)
(* request's own successful submit response; a job identifier is never     *)
(* fabricated locally, so no poll call is issued when the submit response  *)
(* did not supply an identifier.                                           *)
(***************************************************************************)
C16_PollsTargetTheSubmittedJob ==
  \A r \in Reqs :
    LET s == req[r]
    IN  \A k \in 1..Len(s.calls) :
          s.calls[k].op = "poll" =>
            /\ JobCreated(s)
            /\ s.calls[k].task = s.submitRes.task_id

(***************************************************************************)
(* C17.  In the Express adapter, every invocation of the returned platform *)
(* handler eventually resolves its promise with exactly one Response, for  *)
(* any sequence of status/set/write/end calls made on the response shim    *)
(* and for each route outcome (validation rejection, streamed events, no   *)
(* matching route): the first write resolves a streaming Response with the *)
(* status and headers set so far, an end without a prior write resolves a  *)
(* plain Response, and an end after a write closes the stream without      *)
(* resolving a second Response.  Stated on the states of an invocation:    *)
(* resolve() is called at most once, and has been called when nothing of   *)
(* the invocation is left to run; a stream exists exactly when the         *)
(* Response is a streaming one, which carries the status of the shim; and  *)
(* the stream of an ended invocation is closed.                            *)
(***************************************************************************)
C17_ShimResolvesExactlyOnce ==
  \A r \in Reqs :
    LET s == req[r]
    IN  s.adapter = "express" =>
          /\ s.resolves <= 1
          /\ (s.resolves = 1) = (s.response.kind # "none")
          /\ Finished(s) => s.resolves = 1
          /\ (s.stream # "none") = (s.response.kind = "stream")
          /\ s.response.kind # "none" => s.response.status = s.statusCode
          /\ s.pc = "done" => s.stream = "closed" \/ s.response.kind = "plain"

=============================================================================
